---- MODULE Spec2Model ----
(***************************************************************************)
(* Model of util/logger.py: the process-wide logging set-up               *)
(* (setup_logging), the uncaught-exception hook (handle_exception), the   *)
(* file sink's markup filter (RemoveRichMarkupFilter) and the TensorBoard *)
(* forwarder (log_training_details_to_tensorboard).                       *)
(*                                                                         *)
(* Strings are sequences of tokens: a token is a piece of plain text, an  *)
(* opening markup tag "[b]" or a closing markup tag "[/b]".               *)
(***************************************************************************)
EXTENDS Integers, Sequences, FiniteSets, TLC

VARIABLES
    logger_initialized, \* the module global _logger_initialized
    disable,            \* logging.root.manager.disable (set by logging.disable)
    root,               \* the handlers dictConfig attached to the root logger, or None
    dirs,               \* the log directories that exist on disk
    excepthook,         \* sys.excepthook
    rich_tracebacks,    \* whether install_rich_tracebacks has completed
    setup_called,       \* whether setup_logging has been called before
    flips,              \* number of times _logger_initialized went False -> True
    last,               \* the last call: its arguments, the state before it, its outcome
    data_dict,          \* the mapping handed to log_training_details_to_tensorboard
    step,               \* the step index handed to it
    writer              \* the samples the SummaryWriter has received

vars == <<logger_initialized, disable, root, dirs, excepthook, rich_tracebacks,
          setup_called, flips, last, data_dict, step, writer>>

loggerVars == <<logger_initialized, disable, root, dirs, excepthook, rich_tracebacks>>

(***************************************************************************)
(* Bounds of the model.                                                    *)
(***************************************************************************)
MaxDictLen == 3
MaxStep == 1
MaxDim == 2
MaxSamples == 3

(***************************************************************************)
(* Python's logging levels.                                                *)
(***************************************************************************)
DEBUG == 10
INFO == 20
WARNING == 30
CRITICAL == 50

\* Python's None where a path is expected, and where a traceback is expected.
None == <<>>
NoExcInfo == "None"
NoException == "NoException"

\* logging.getLevelName(level): the registered name, or "Level <n>".
getLevelName(level) ==
    CASE level = 0 -> "NOTSET"
      [] level = DEBUG -> "DEBUG"
      [] level = INFO -> "INFO"
      [] level = WARNING -> "WARNING"
      [] level = 40 -> "ERROR"
      [] level = CRITICAL -> "CRITICAL"
      [] OTHER -> "Level n"

\* logging._checkLevel(name): the number of a registered level name.
LevelNumbers ==
    [n \in {"NOTSET", "DEBUG", "INFO", "WARNING", "ERROR", "CRITICAL"} |->
        CASE n = "NOTSET" -> 0
          [] n = "DEBUG" -> DEBUG
          [] n = "INFO" -> INFO
          [] n = "WARNING" -> WARNING
          [] n = "ERROR" -> 40
          [] n = "CRITICAL" -> CRITICAL]

(***************************************************************************)
(* Markup: rich.text.Text.from_markup(s).plain                             *)
(***************************************************************************)
OpenTags == {"[b]"}
CloseTags == {"[/b]"}
TagName(tok) == "b"

\* Index of the last element of stack equal to name, 0 when there is none.
RECURSIVE LastIndexOf(_, _)
LastIndexOf(stack, name) ==
    IF stack = <<>> THEN 0
    ELSE IF stack[Len(stack)] = name THEN Len(stack)
    ELSE LastIndexOf(SubSeq(stack, 1, Len(stack) - 1), name)

RemoveAt(s, i) == SubSeq(s, 1, i - 1) \o SubSeq(s, i + 1, Len(s))

\* The markup parser: text is collected, an opening tag is pushed, a closing
\* tag pops the nearest open tag of its name and is a MarkupError without one.
RECURSIVE Render(_, _, _)
Render(toks, stack, plain) ==
    IF toks = <<>> THEN [raised |-> NoException, plain |-> plain]
    ELSE LET t == Head(toks) IN
         IF t \in OpenTags THEN Render(Tail(toks), Append(stack, TagName(t)), plain)
         ELSE IF t \in CloseTags THEN
              LET i == LastIndexOf(stack, TagName(t)) IN
              IF i = 0 THEN [raised |-> "MarkupError", plain |-> <<>>]
              ELSE Render(Tail(toks), RemoveAt(stack, i), plain)
         ELSE Render(Tail(toks), stack, Append(plain, t))

from_markup(toks) == Render(toks, <<>>, <<>>)

\* RemoveRichMarkupFilter.filter(record): the record's message is replaced by
\* its plain text and the record is accepted; a MarkupError propagates.
\* (Every logging call modelled here passes no args, so getMessage() is msg.)
RemoveRichMarkupFilter_filter(record) ==
    LET text == from_markup(record.msg) IN
    IF text.raised # NoException
    THEN [raised |-> text.raised, accepted |-> FALSE, record |-> record]
    ELSE [raised |-> NoException, accepted |-> TRUE,
          record |-> [record EXCEPT !.msg = text.plain]]

(***************************************************************************)
(* The logging framework as LOGGING_CONFIG sets it up.                     *)
(***************************************************************************)
NoOutput ==
    [raised |-> NoException, records |-> 0, console |-> <<>>, file |-> <<>>,
     stderr |-> <<>>]

\* The "console" handler: rich.logging.RichHandler with markup=True renders the
\* message as markup, so a malformed message is a MarkupError.
ConsoleEmit(cfg, record) ==
    IF record.levelno < LevelNumbers[cfg.console.level] THEN NoOutput
    ELSE LET text == from_markup(record.msg) IN
         IF text.raised # NoException
         THEN [NoOutput EXCEPT !.raised = text.raised]
         ELSE [NoOutput EXCEPT
                 !.console = <<[levelno |-> record.levelno, msg |-> text.plain,
                                exc_info |-> record.exc_info]>>]

\* The "file" handler: logging.FileHandler on cfg.file.filename, formatter
\* "%(message)s", filters ["remove_markup"].
FileEmit(cfg, record) ==
    IF record.levelno < LevelNumbers[cfg.file.level] THEN NoOutput
    ELSE LET f == RemoveRichMarkupFilter_filter(record) IN
         IF f.raised # NoException
         THEN [NoOutput EXCEPT !.raised = f.raised]
         ELSE IF ~f.accepted THEN NoOutput
         ELSE [NoOutput EXCEPT
                 !.file = <<[filename |-> cfg.file.filename, line |-> f.record.msg,
                             levelno |-> record.levelno,
                             exc_info |-> record.exc_info]>>]

\* The root logger before dictConfig: no handler of LOGGING_CONFIG is attached.
NoHandlers ==
    [active |-> FALSE,
     console |-> [level |-> "NOTSET"],
     file |-> [level |-> "NOTSET", filename |-> None]]

\* A logging call on the root logger (logging.info, .warning, .critical):
\* no record at all when the record's level is disabled; before dictConfig the
\* root logger is at WARNING and prints to the error stream; after it the root
\* logger is at DEBUG and hands the record to "console" and then to "file".
logging_log(mgr_disable, handlers, record) ==
    IF mgr_disable >= record.levelno THEN NoOutput
    ELSE IF ~handlers.active THEN
        IF record.levelno < WARNING THEN NoOutput
        ELSE [NoOutput EXCEPT !.records = 1, !.stderr = <<record.msg>>]
    ELSE IF record.levelno < DEBUG THEN NoOutput
    ELSE LET c == ConsoleEmit(handlers, record) IN
         IF c.raised # NoException THEN [c EXCEPT !.records = 1]
         ELSE LET f == FileEmit(handlers, record) IN
              [f EXCEPT !.records = 1, !.console = c.console]

(***************************************************************************)
(* setup_logging                                                           *)
(***************************************************************************)
State ==
    [logger_initialized |-> logger_initialized, disable |-> disable, root |-> root,
     dirs |-> dirs, excepthook |-> excepthook, rich_tracebacks |-> rich_tracebacks]

\* What a call leaves behind: the state after it, what it returned, the
\* exception that left it, and what it wrote where.
Outcome(st, result, out, default_calls) ==
    [state |-> st, result |-> result, raised |-> out.raised, records |-> out.records,
     console |-> out.console, file |-> out.file, stderr |-> out.stderr,
     default_calls |-> default_calls]

\* The text of a path, as it appears in a log message.
PathText(path) ==
    <<path[1]>> \o path[2] \o path[3] \o <<path[4]>> \o SubSeq(path, 5, Len(path))

\* The places of the try block where the environment can make a step raise.
Faults == {"none", "makedirs", "dictConfig", "install_rich_tracebacks"}

\* Faulty variant: the guard is missing.
already_initialized_Dropped == FALSE

\* The guard of line 92: setup has already succeeded in this process.
already_initialized == logger_initialized

\* Faulty variant: nothing is disabled.
logging_disable_Skipped(st) == st

\* logging.disable(logging.CRITICAL + 1).
logging_disable(st) == [st EXCEPT !.disable = CRITICAL + 1]

\* os.makedirs(log_subdir, exist_ok=True).
makedirs(st, log_subdir) == [st EXCEPT !.dirs = @ \cup {log_subdir}]

\* Faulty variant: activating a configuration enables logging again.
dictConfig_ResetsDisable(st, config) == [st EXCEPT !.root = config, !.disable = 0]

\* logging.config.dictConfig(config): the handlers of config replace the root
\* logger's; the level logging.disable set is left as it is.
dictConfig(st, config) == [st EXCEPT !.root = config]

\* dictConfig rejects a handler whose level is not a registered level name.
ValidConfig(config) ==
    /\ config.console.level \in DOMAIN LevelNumbers
    /\ config.file.level \in DOMAIN LevelNumbers

\* install_rich_tracebacks(show_locals=True); sys.excepthook = handle_exception.
install_hooks(st) ==
    [st EXCEPT !.rich_tracebacks = TRUE, !.excepthook = "handle_exception"]

\* _logger_initialized = True.
mark_initialized(st) == [st EXCEPT !.logger_initialized = TRUE]

\* Faulty variant: no except clause, the exception leaves the call.
SetupFailed_Propagates(st, out) ==
    Outcome(st, None, [out EXCEPT !.raised = "Exception"], 0)

\* The except clause: the failure and its traceback go to the error stream,
\* the exception is swallowed and the call returns None.
SetupFailed(st, out) ==
    Outcome(st, None,
            [out EXCEPT !.raised = NoException,
                        !.stderr = @ \o <<<<"Failed to initialize logger">>, <<"Traceback">>>>],
            0)

\* timestamp is what time.strftime("%Y-%m%d-%H%M", time.localtime()) returns
\* during the call; fault is the step of the try block the environment makes
\* raise, if any.
setup_logging(dataset, model, no_log, log_dir, console_log_level, file_log_level, timestamp, fault) ==
    LET log_subdir == <<log_dir, dataset, model, timestamp>>
        log_filename == Append(log_subdir, "result.log")
        config == [active |-> TRUE,
                   console |-> [level |-> getLevelName(console_log_level)],
                   file |-> [level |-> getLevelName(file_log_level),
                             filename |-> log_filename]]
        made == makedirs(State, log_subdir)
        configured == dictConfig(made, config)
        hooked == install_hooks(configured)
        marked == mark_initialized(hooked)
        info == logging_log(marked.disable, marked.root,
                    [levelno |-> INFO,
                     msg |-> <<"Logger initialized. Log file at: ">> \o PathText(log_filename),
                     exc_info |-> NoExcInfo])
    IN
    IF already_initialized THEN
        Outcome(State, None,
                logging_log(disable, root,
                    [levelno |-> WARNING,
                     msg |-> <<"Logger has already been initialized.">>,
                     exc_info |-> NoExcInfo]),
                0)
    ELSE IF no_log THEN Outcome(logging_disable(State), None, NoOutput, 0)
    ELSE IF fault = "makedirs" THEN SetupFailed(State, NoOutput)
    ELSE IF fault = "dictConfig" \/ ~ValidConfig(config) THEN SetupFailed(made, NoOutput)
    ELSE IF fault = "install_rich_tracebacks" THEN SetupFailed(configured, NoOutput)
    ELSE IF info.raised # NoException THEN SetupFailed(marked, info)
    ELSE Outcome(marked, log_subdir, info, 0)

(***************************************************************************)
(* handle_exception                                                        *)
(***************************************************************************)
\* The base class of each exception class the model raises.
Bases ==
    [c \in {"BaseException", "Exception", "KeyboardInterrupt", "UserAbort",
            "ValueError", "SystemExit"} |->
        CASE c = "Exception" -> "BaseException"
          [] c = "KeyboardInterrupt" -> "BaseException"
          [] c = "UserAbort" -> "KeyboardInterrupt"
          [] c = "ValueError" -> "Exception"
          [] c = "SystemExit" -> "BaseException"
          [] OTHER -> "object"]

RECURSIVE issubclass(_, _)
issubclass(cls, base) ==
    IF cls = base THEN TRUE
    ELSE IF cls \notin DOMAIN Bases THEN FALSE
    ELSE issubclass(Bases[cls], base)

\* sys.__excepthook__: the default handler prints the traceback.
DefaultHook(exc_type) == <<"Traceback", exc_type>>

\* Faulty variant: the class is compared, subclasses are missed.
is_interrupt_ExactClass(exc_type) == exc_type = "KeyboardInterrupt"

\* The test of line 132.
is_interrupt(exc_type) == issubclass(exc_type, "KeyboardInterrupt")

handle_exception(exc_type) ==
    IF is_interrupt(exc_type) THEN
        Outcome(State, None, [NoOutput EXCEPT !.stderr = <<DefaultHook(exc_type)>>], 1)
    ELSE IF logger_initialized THEN
        Outcome(State, None,
                logging_log(disable, root,
                    [levelno |-> CRITICAL,
                     msg |-> <<"Unhandled exception occurred:">>,
                     exc_info |-> exc_type]),
                0)
    ELSE
        Outcome(State, None,
                [NoOutput EXCEPT !.stderr =
                    <<<<"Unhandled exception occurred (logger not initialized):">>,
                      DefaultHook(exc_type)>>],
                1)

(***************************************************************************)
(* log_training_details_to_tensorboard                                     *)
(***************************************************************************)
\* Python values: a torch.Tensor of some dimension, or a built-in value.
Tensors == [cls : {"Tensor"}, dim : 0..MaxDim, item : {"7"}]
Builtins ==
    {[cls |-> "float", dim |-> 0, item |-> "0.5"],
     [cls |-> "int", dim |-> 0, item |-> "3"],
     [cls |-> "bool", dim |-> 0, item |-> "True"],
     [cls |-> "str", dim |-> 0, item |-> "s"],
     [cls |-> "NoneType", dim |-> 0, item |-> "None"]}
Values == Tensors \cup Builtins

\* bool is a subclass of int.
isinstance(value, classes) ==
    \/ value.cls \in classes
    \/ value.cls = "bool" /\ "int" \in classes

\* Tensor.item(): the Python number a zero-dimensional tensor holds.
item(value) == [cls |-> "float", dim |-> 0, item |-> value.item]

add_scalar(key, value, global_step) ==
    [kind |-> "scalar", tag |-> key, value |-> value, global_step |-> global_step]

add_histogram(key, value, global_step) ==
    [kind |-> "histogram", tag |-> key, value |-> value, global_step |-> global_step]

\* The loop over data_dict.items(), in the mapping's iteration order.
\* Faulty variant: one-dimensional tensors are taken for scalars.
is_zero_dim_AtMostOne(value) == value.dim <= 1

\* The test of line 152: value.dim() == 0.
is_zero_dim(value) == value.dim = 0

RECURSIVE log_training_details_to_tensorboard(_, _, _)
log_training_details_to_tensorboard(samples, global_step, items) ==
    IF items = <<>> THEN samples
    ELSE LET key == Head(items).key
             value == Head(items).value
             sent ==
                 IF isinstance(value, {"Tensor"}) THEN
                     IF is_zero_dim(value)
                     THEN Append(samples, add_scalar(key, item(value), global_step))
                     ELSE Append(samples, add_histogram(key, value, global_step))
                 ELSE IF isinstance(value, {"float", "int"})
                 THEN Append(samples, add_scalar(key, value, global_step))
                 ELSE samples
         IN log_training_details_to_tensorboard(sent, global_step, Tail(items))

(***************************************************************************)
(* Inputs                                                                  *)
(***************************************************************************)
Datasets == {<<"d">>, <<"[/b]">>}
Models == {<<"m">>}
LogDirs == {"./log"}
\* INFO and CRITICAL are registered levels, 25 is not.
ConsoleLevels == {INFO, CRITICAL, 25}
FileLevels == {INFO, CRITICAL}
Timestamps == {"2026-1105-0300"}
ExcTypes == {"KeyboardInterrupt", "UserAbort", "ValueError", "SystemExit"}

\* Plain text, well-formed markup, and a closing tag that closes nothing.
Messages == {<<"x">>, <<"[b]", "x", "[/b]">>, <<"[/b]", "x">>}
RecordLevels == {INFO, WARNING, CRITICAL}

Keys == {"loss", "grad", "lr"}
\* The orders in which a mapping can hold distinct keys.
KeyOrders ==
    {ks \in UNION {[1..n -> Keys] : n \in 0..MaxDictLen} :
        \A i, j \in DOMAIN ks : i # j => ks[i] # ks[j]}
Dicts ==
    UNION {{[i \in DOMAIN ks |-> [key |-> ks[i], value |-> vs[i]]] :
               vs \in [DOMAIN ks -> Values]} : ks \in KeyOrders}
Steps == 0..MaxStep

NoArgs ==
    [dataset |-> <<>>, model |-> <<>>, no_log |-> FALSE, log_dir |-> "",
     console_log_level |-> 0, file_log_level |-> 0, timestamp |-> "",
     fault |-> "none",
     exc_type |-> "", levelno |-> 0, msg |-> <<>>, step |-> 0]

Call(op, args, pre_writer, o) ==
    [op |-> op, args |-> args, pre |-> State, again |-> setup_called,
     pre_writer |-> pre_writer,
     result |-> o.result, raised |-> o.raised, records |-> o.records,
     console |-> o.console, file |-> o.file, stderr |-> o.stderr,
     default_calls |-> o.default_calls]

(***************************************************************************)
(* The state machine                                                       *)
(***************************************************************************)
\* Faulty variant: the flag starts true.
InitialFlag_True == TRUE

\* _logger_initialized = False, at import.
InitialFlag == FALSE

InitLogger ==
    /\ logger_initialized = InitialFlag
    /\ disable = 0
    /\ root = NoHandlers
    /\ dirs = {}
    /\ excepthook = "sys.__excepthook__"
    /\ rich_tracebacks = FALSE
    /\ setup_called = FALSE
    /\ flips = 0
    /\ last = Call("import", NoArgs, 0, Outcome(State, None, NoOutput, 0))
    /\ step = 0
    /\ writer = <<>>

Init ==
    /\ InitLogger
    /\ data_dict = <<>>

Apply(o) ==
    /\ logger_initialized' = o.state.logger_initialized
    /\ disable' = o.state.disable
    /\ root' = o.state.root
    /\ dirs' = o.state.dirs
    /\ excepthook' = o.state.excepthook
    /\ rich_tracebacks' = o.state.rich_tracebacks
    /\ flips' = IF ~logger_initialized /\ o.state.logger_initialized /\ flips < 2
                THEN flips + 1 ELSE flips

\* A call of setup_logging by the host application.
SetupLogging ==
    /\ \E dataset \in Datasets, model \in Models, no_log \in BOOLEAN,
          log_dir \in LogDirs, console_log_level \in ConsoleLevels,
          file_log_level \in FileLevels, timestamp \in Timestamps, fault \in Faults :
         LET o == setup_logging(dataset, model, no_log, log_dir, console_log_level,
                                file_log_level, timestamp, fault)
         IN /\ Apply(o)
            /\ last' = Call("setup_logging",
                            [NoArgs EXCEPT !.dataset = dataset, !.model = model,
                                !.no_log = no_log, !.log_dir = log_dir,
                                !.console_log_level = console_log_level,
                                !.file_log_level = file_log_level,
                                !.timestamp = timestamp, !.fault = fault],
                            Len(writer), o)
    /\ setup_called' = TRUE
    /\ UNCHANGED <<data_dict, step, writer>>

\* handle_exception runs: as sys.excepthook on an uncaught exception, or called
\* directly.
HandleException ==
    /\ \E exc_type \in ExcTypes :
         LET o == handle_exception(exc_type)
         IN /\ Apply(o)
            /\ last' = Call("handle_exception", [NoArgs EXCEPT !.exc_type = exc_type],
                            Len(writer), o)
    /\ UNCHANGED <<setup_called, data_dict, step, writer>>

\* The host application logs a record through the root logger.
LogRecord ==
    /\ \E levelno \in RecordLevels, msg \in Messages :
         LET o == Outcome(State, None,
                          logging_log(disable, root,
                              [levelno |-> levelno, msg |-> msg, exc_info |-> NoExcInfo]),
                          0)
         IN /\ Apply(o)
            /\ last' = Call("log", [NoArgs EXCEPT !.levelno = levelno, !.msg = msg],
                            Len(writer), o)
    /\ UNCHANGED <<setup_called, data_dict, step, writer>>

Next == SetupLogging \/ HandleException \/ LogRecord

Spec == Init /\ [][Next]_vars

\* The forwarder on its own: the mapping is an input, each call sends to the
\* same SummaryWriter.
InitForwarder ==
    /\ InitLogger
    /\ data_dict \in Dicts

Forward ==
    /\ Len(writer) + Len(data_dict) <= MaxSamples
    /\ \E global_step \in Steps :
         /\ writer' = log_training_details_to_tensorboard(writer, global_step, data_dict)
         /\ step' = global_step
         /\ last' = Call("log_training_details_to_tensorboard",
                         [NoArgs EXCEPT !.step = global_step], Len(writer),
                         Outcome(State, None, NoOutput, 0))
    /\ UNCHANGED <<loggerVars, setup_called, flips, data_dict>>

NextForwarder == Forward

SpecForwarder == InitForwarder /\ [][NextForwarder]_vars

(***************************************************************************)
(* Properties                                                              *)
(***************************************************************************)
IsSetup == last.op = "setup_logging"
IsHook == last.op = "handle_exception"
Suppressed(d) == \A levelno \in RecordLevels : d >= levelno
WarningLine == <<"Logger has already been initialized.">>
IsTag(tok) == tok \in OpenTags \cup CloseTags
\* A step of the try block named by the call's arguments raised.
StepRaised ==
    \/ last.args.fault # "none"
    \/ getLevelName(last.args.console_log_level) \notin DOMAIN LevelNumbers
    \/ getLevelName(last.args.file_log_level) \notin DOMAIN LevelNumbers
SubdirOf(args) == <<args.log_dir, args.dataset, args.model, args.timestamp>>

\* C1 (as stated): any setup_logging call that is not the first one of the
\* process returns None and creates no directory, re-applies no configuration,
\* re-installs no hook and leaves the flag as it was.
C1_SecondCallIsNoOp ==
    (IsSetup /\ last.again) =>
        /\ last.result = None
        /\ dirs = last.pre.dirs
        /\ root = last.pre.root
        /\ excepthook = last.pre.excepthook
        /\ logger_initialized = last.pre.logger_initialized

\* C1 (amended): a setup_logging call made while the initialized flag is true
\* returns None, raises nothing and changes nothing: no directory, no
\* configuration, no hook, no flag change, whatever its arguments; the only
\* thing it writes is the warning record.
C1_CallWhenInitializedIsNoOp ==
    (IsSetup /\ last.pre.logger_initialized) =>
        /\ last.result = None
        /\ last.raised = NoException
        /\ State = last.pre
        /\ last.stderr = <<>>
        /\ Len(last.file) <= 1
        /\ \A i \in DOMAIN last.file :
              /\ last.file[i].line = WarningLine
              /\ last.file[i].filename = last.pre.root.file.filename
        /\ \A i \in DOMAIN last.console : last.console[i].msg = WarningLine

C1_Witness ==
    /\ IsSetup
    /\ last.pre.logger_initialized
    /\ ~last.args.no_log
    /\ last.args.fault = "none"
    /\ SubdirOf(last.args) \notin dirs
    /\ Len(last.file) = 1

\* C2: the initialized flag starts false, goes from false to true at most
\* once, and no call of any kind sets it back to false.
C2_FlagSetOnce ==
    /\ last.op = "import" => ~logger_initialized
    /\ flips <= 1
    /\ logger_initialized <=> flips = 1
    /\ last.pre.logger_initialized => logger_initialized

C2_Witness ==
    /\ IsSetup
    /\ last.pre.logger_initialized
    /\ last.args.no_log
    /\ logger_initialized
    /\ flips = 1

\* C3 (as stated): every setup_logging call with no_log=True returns None and
\* leaves logging disabled at every severity.
C3_SuppressedCallDisablesAll ==
    (IsSetup /\ last.args.no_log) =>
        /\ last.result = None
        /\ Suppressed(disable)

\* C3 (amended): every setup_logging call with no_log=True returns None; made
\* while the flag is false (the first call or a later one) it leaves logging
\* disabled at every severity, so that no record is produced from then on;
\* made while the flag is true it leaves the disable level as it was.
C3_SuppressedCallWhenNotInitialized ==
    /\ (IsSetup /\ last.args.no_log) =>
          /\ last.result = None
          /\ last.raised = NoException
          /\ ~last.pre.logger_initialized => Suppressed(disable)
          /\ last.pre.logger_initialized => disable = last.pre.disable
    /\ Suppressed(disable) =>
          last.records = 0 /\ last.console = <<>> /\ last.file = <<>>

C3_Witness ==
    /\ IsSetup
    /\ last.args.no_log
    /\ last.again
    /\ ~last.pre.logger_initialized
    /\ ~Suppressed(last.pre.disable)
    /\ last.pre.root.active
    /\ Suppressed(disable)

\* C4: when directory creation, configuration activation or traceback
\* installation raises in a non-suppressed setup with the flag false, nothing
\* propagates, the failure is printed on the error stream, the call returns
\* None, and the flag is still false.
C4_SetupFailureIsSwallowed ==
    (IsSetup /\ ~last.pre.logger_initialized /\ ~last.args.no_log /\ StepRaised) =>
        /\ last.raised = NoException
        /\ last.result = None
        /\ last.stderr = <<<<"Failed to initialize logger">>, <<"Traceback">>>>
        /\ ~logger_initialized

C4_Witness ==
    /\ IsSetup
    /\ ~last.pre.logger_initialized
    /\ ~last.args.no_log
    /\ last.args.fault = "install_rich_tracebacks"
    /\ root.active
    /\ SubdirOf(last.args) \in dirs
    /\ ~logger_initialized

\* C5: setup_logging returns a path exactly when the call turns the flag from
\* false to true; the path is log_dir/dataset/model/<timestamp>, it exists,
\* the file sink writes to result.log inside it and sys.excepthook is
\* handle_exception; the flag is never true without directory, configuration
\* and hook.
C5_PathIffInitialized ==
    /\ IsSetup =>
          /\ (last.result # None) <=> (~last.pre.logger_initialized /\ logger_initialized)
          /\ last.result # None =>
                /\ last.result = SubdirOf(last.args)
                /\ last.result \in dirs
                /\ root.active
                /\ root.file.filename = Append(last.result, "result.log")
                /\ excepthook = "handle_exception"
    /\ logger_initialized =>
          /\ root.active
          /\ SubSeq(root.file.filename, 1, 4) \in dirs
          /\ excepthook = "handle_exception"

\* C6: handle_exception with KeyboardInterrupt or a subclass of it calls the
\* default handler exactly once and produces no log record, in every logging
\* state.
C6_InterruptPassedThrough ==
    (IsHook /\ issubclass(last.args.exc_type, "KeyboardInterrupt")) =>
        /\ last.default_calls = 1
        /\ last.records = 0
        /\ last.console = <<>>
        /\ last.file = <<>>
        /\ last.stderr = <<DefaultHook(last.args.exc_type)>>

C6_Witness ==
    /\ IsHook
    /\ last.args.exc_type = "UserAbort"
    /\ logger_initialized
    /\ ~Suppressed(disable)
    /\ last.default_calls = 1

\* C7: handle_exception with any other exception logs exactly one critical
\* record with the traceback and does not call the default handler when the
\* flag is true, and prints a notice and calls the default handler, logging
\* nothing, when the flag is false: the exception is logged or printed, never
\* neither.
C7_LoggedOrPrinted ==
    (IsHook /\ ~issubclass(last.args.exc_type, "KeyboardInterrupt")) =>
        /\ last.pre.logger_initialized =>
              /\ last.records = 1
              /\ last.default_calls = 0
              /\ \E i \in DOMAIN last.console :
                    /\ last.console[i].levelno = CRITICAL
                    /\ last.console[i].exc_info = last.args.exc_type
        /\ ~last.pre.logger_initialized =>
              /\ last.records = 0
              /\ last.default_calls = 1
              /\ last.stderr # <<>>
        /\ last.records = 1 \/ last.stderr # <<>>

\* The samples the last call of the forwarder sent.
NewSamples == SubSeq(writer, last.pre_writer + 1, Len(writer))
\* The position of a key in the mapping's iteration order.
KeyIndex(key) == CHOOSE i \in DOMAIN data_dict : data_dict[i].key = key

\* C8: each entry of the mapping yields at most one sample, at the call's
\* step: a zero-dimensional tensor one scalar sample of its item, a tensor of
\* one or more dimensions one histogram sample, a float or an int (a bool is
\* an int) one scalar sample, any other value none; the samples follow the
\* mapping's iteration order.
C8_OneSamplePerEntry ==
    last.op = "log_training_details_to_tensorboard" =>
        /\ \A i \in DOMAIN data_dict :
              LET value == data_dict[i].value
                  hits == {j \in DOMAIN NewSamples :
                              NewSamples[j].tag = data_dict[i].key}
              IN /\ Cardinality(hits) <= 1
                 /\ \A j \in hits : NewSamples[j].global_step = last.args.step
                 /\ (value.cls = "Tensor" /\ value.dim = 0) =>
                       \E j \in hits :
                          /\ NewSamples[j].kind = "scalar"
                          /\ NewSamples[j].value.cls # "Tensor"
                          /\ NewSamples[j].value.item = value.item
                 /\ (value.cls = "Tensor" /\ value.dim >= 1) =>
                       \E j \in hits :
                          /\ NewSamples[j].kind = "histogram"
                          /\ NewSamples[j].value = value
                 /\ value.cls \in {"float", "int", "bool"} =>
                       \E j \in hits :
                          /\ NewSamples[j].kind = "scalar"
                          /\ NewSamples[j].value = value
                 /\ value.cls \notin {"Tensor", "float", "int", "bool"} => hits = {}
        /\ \A j \in DOMAIN NewSamples :
              \E i \in DOMAIN data_dict : data_dict[i].key = NewSamples[j].tag
        /\ \A j, k \in DOMAIN NewSamples :
              j < k => KeyIndex(NewSamples[j].tag) < KeyIndex(NewSamples[k].tag)

C8_Witness ==
    /\ last.op = "log_training_details_to_tensorboard"
    /\ Len(data_dict) = 3
    /\ data_dict[1].value.cls = "Tensor" /\ data_dict[1].value.dim = 1
    /\ data_dict[2].value.cls = "str"
    /\ data_dict[3].value.cls = "Tensor" /\ data_dict[3].value.dim = 0
    /\ Len(NewSamples) = 2
    /\ NewSamples[1].kind = "histogram"
    /\ NewSamples[2].kind = "scalar"

\* C9: every record that reaches the file sink is accepted by the markup
\* filter and written to result.log as its text without the markup tags.
C9_FileRecordsPlain ==
    (/\ last.op = "log"
     /\ root.active
     /\ ~Suppressed(disable)
     /\ last.args.levelno >= LevelNumbers[root.file.level]
     /\ last.args.levelno < LevelNumbers[root.console.level]) =>
        /\ last.raised = NoException
        /\ Len(last.file) = 1
        /\ last.file[1].line = SelectSeq(last.args.msg, LAMBDA tok : ~IsTag(tok))

\* C10: a suppressing setup_logging call leaves the flag false; once logging
\* is disabled no call enables it again; a later non-suppressed call whose
\* steps all succeed still creates the directory, installs the hook, sets the
\* flag and returns the path; and while logging is disabled no record reaches
\* any sink, the critical record of handle_exception included.
C10_SuppressionIsPermanent ==
    /\ (IsSetup /\ last.args.no_log /\ ~last.pre.logger_initialized) =>
          ~logger_initialized
    /\ Suppressed(last.pre.disable) => Suppressed(disable)
    /\ (/\ IsSetup
        /\ ~last.args.no_log
        /\ ~last.pre.logger_initialized
        /\ Suppressed(last.pre.disable)
        /\ ~StepRaised) =>
          /\ last.result = SubdirOf(last.args)
          /\ last.result \in dirs
          /\ excepthook = "handle_exception"
          /\ logger_initialized
    /\ Suppressed(disable) =>
          last.records = 0 /\ last.console = <<>> /\ last.file = <<>>

C10_Witness ==
    /\ IsHook
    /\ last.args.exc_type = "ValueError"
    /\ logger_initialized
    /\ root.active
    /\ Suppressed(disable)
    /\ last.records = 0
    /\ last.stderr = <<>>

====
